---- MODULE Spec2Model ----
(***************************************************************************)
(* A model of the youtube-music host shell: the song-info provider         *)
(* (providers/song-info: cleanupName, getImage, handleData,                *)
(* registerCallback, registerProvider), and of index.js (loadPlugins, the  *)
(* window lifecycle with its "browser-window-created" handler, the CSP     *)
(* listener and the onHeadersReceived resolver of                          *)
(* removeContentSecurityPolicy).                                           *)
(*                                                                         *)
(* JavaScript strings are sequences of one-character strings, so that      *)
(* endsWith, includes and slice are computed on characters.  A value that  *)
(* may be undefined is a record [t, v]: t = "string" with the characters   *)
(* in v, or t = "undefined".                                               *)
(***************************************************************************)
EXTENDS Integers, Sequences, FiniteSets, TLC

VARIABLES
    \* cleanupName applied to a drawn input, once and twice
    name, out1, out2, cpc,
    \* the CSP listener applied to a drawn response header map
    cspIn, cspOut, cspDetails, cspPc,
    \* the session's onHeadersReceived listeners and the event being resolved
    mainWindow, listeners, resolverSet, evPc, evListeners, details, lst, results,
    returnedOrder, prom, response, deliveries,
    \* loadPlugins: the enabled plugins, the pending fileExists probes, the
    \* calls of plugin entry points and the errors they threw
    enabledPlugins, loadPc, pendingProbes, activations, reportedErrors,
    \* the song-info provider: the registered callbacks, the shared songInfo
    \* object, the handler invocations in flight, and of the latest publish:
    \* what was published, the calls made and the message sent; and the
    \* origins of the handler rejections that electron-unhandled has logged
    callbacks, songInfo, triggers, tasks, lastPublish, delivered, lastSent, rejections,
    \* getImage applied to a drawn thumbnail URL: the URLs fetched, what each
    \* fetch decoded to, and what the call returned
    imgSrc, imgPc, fetched, outputs, imgResult,
    \* the app's "browser-window-created" handler: whether app.once still holds
    \* it, the BrowserWindows created so far, and the windows it was called with
    onceRegistered, windowsCreated, setupWindows

cleanVars == <<name, out1, out2, cpc>>
cspVars == <<cspIn, cspOut, cspDetails, cspPc>>
regVars == <<mainWindow, listeners, resolverSet>>
evVars == <<evPc, evListeners, details, lst, results, returnedOrder, prom, response,
            deliveries>>
hdrVars == <<regVars, evVars>>
plugVars == <<enabledPlugins, loadPc, pendingProbes, activations, reportedErrors>>
songVars == <<callbacks, songInfo, triggers, tasks, lastPublish, delivered, lastSent,
              rejections>>

imgVars == <<imgSrc, imgPc, fetched, outputs, imgResult>>
lifeVars == <<onceRegistered, windowsCreated, setupWindows>>

vars == <<cleanVars, cspVars, hdrVars, plugVars, songVars, imgVars, lifeVars>>

----------------------------------------------------------------------------
(* JavaScript values and string primitives *)

Str(chars) == [t |-> "string", v |-> chars]
Undefined == [t |-> "undefined", v |-> <<>>]

\* !x for a value that is a string or undefined: undefined and "" are falsy
Falsy(x) == x.t = "undefined" \/ x.v = <<>>

\* String.prototype.endsWith
endsWith(s, suffix) ==
    /\ Len(suffix) <= Len(s)
    /\ SubSeq(s, Len(s) - Len(suffix) + 1, Len(s)) = suffix

\* String.prototype.includes
includes(s, part) ==
    \E i \in 1..(Len(s) - Len(part) + 1) : SubSeq(s, i, i + Len(part) - 1) = part

\* s.slice(0, -n) for n > 0
sliceOffEnd(s, n) == SubSeq(s, 1, Len(s) - n)

----------------------------------------------------------------------------
(* providers/song-info: suffixesToRemove and cleanupName *)

TopicSuffix == <<" ", "-", " ", "T", "o", "p", "i", "c">>
VevoSuffix == <<"V", "E", "V", "O">>
PerformanceVideoSuffix ==
    <<" ", "(", "P", "e", "r", "f", "o", "r", "m", "a", "n", "c", "e",
      " ", "V", "i", "d", "e", "o", ")">>
OfficialMusicVideoSuffix ==
    <<" ", "(", "O", "f", "f", "i", "c", "i", "a", "l", " ", "M", "u", "s", "i", "c",
      " ", "V", "i", "d", "e", "o", ")">>
OfficialVideoSuffix ==
    <<" ", "(", "O", "f", "f", "i", "c", "i", "a", "l", " ", "V", "i", "d", "e", "o", ")">>
ClipOfficielSuffix ==
    <<" ", "(", "C", "l", "i", "p", " ", "o", "f", "f", "i", "c", "i", "e", "l", ")">>

suffixesToRemove ==
    << TopicSuffix, VevoSuffix, PerformanceVideoSuffix, OfficialMusicVideoSuffix,
       OfficialVideoSuffix, ClipOfficielSuffix >>

\* the for-of loop of cleanupName from suffix number i on
RECURSIVE cleanupLoop(_, _)
cleanupLoop(artist, i) ==
    IF i > Len(suffixesToRemove) THEN artist
    ELSE IF endsWith(artist.v, suffixesToRemove[i])
         THEN Str(sliceOffEnd(artist.v, Len(suffixesToRemove[i])))
         ELSE cleanupLoop(artist, i + 1)

\* a cleanupName that tests artist.includes(suffix) instead of endsWith
RECURSIVE cleanupLoopIncludes(_, _)
cleanupLoopIncludes(artist, i) ==
    IF i > Len(suffixesToRemove) THEN artist
    ELSE IF includes(artist.v, suffixesToRemove[i])
         THEN Str(sliceOffEnd(artist.v, Len(suffixesToRemove[i])))
         ELSE cleanupLoopIncludes(artist, i + 1)

cleanupNameIncludes(artist) ==
    IF Falsy(artist) THEN artist ELSE cleanupLoopIncludes(artist, 1)

\* a cleanupName that keeps stripping while some suffix matches
RECURSIVE cleanupNameRepeat(_)
cleanupNameRepeat(artist) ==
    IF Falsy(artist) THEN artist
    ELSE LET once == cleanupLoop(artist, 1)
         IN IF once = artist THEN artist ELSE cleanupNameRepeat(once)

cleanupName(artist) ==
    IF Falsy(artist) THEN artist ELSE cleanupLoop(artist, 1)

----------------------------------------------------------------------------
(* The inputs of cleanupName: a base name followed by up to MaxPieces      *)
(* pieces, each a listed suffix or a near miss of one.                     *)

MaxPieces == 2

ArtistChars == <<"A", "r", "t", "i", "s", "t">>
SongChars == <<"S", "o", "n", "g">>
BandChars == <<"B", "a", "n", "d">>
SpaceVevo == <<" ">> \o VevoSuffix
LivePiece == <<" ", "(", "L", "i", "v", "e", ")">>

NameBases == { <<>>, ArtistChars, SongChars, BandChars }

NamePieces ==
    { suffixesToRemove[i] : i \in 1..Len(suffixesToRemove) }
        \cup { SpaceVevo, LivePiece, <<"V", "E", "V">> }

RECURSIVE Flatten(_)
Flatten(ps) == IF ps = <<>> THEN <<>> ELSE Head(ps) \o Flatten(Tail(ps))

PieceSeqs == UNION { [1..n -> NamePieces] : n \in 0..MaxPieces }

NameInputs ==
    { Undefined } \cup { Str(b \o Flatten(ps)) : b \in NameBases, ps \in PieceSeqs }

CleanIdle ==
    /\ name = Undefined
    /\ out1 = Undefined
    /\ out2 = Undefined
    /\ cpc = "idle"

CleanInit ==
    /\ name \in NameInputs
    /\ out1 = Undefined
    /\ out2 = Undefined
    /\ cpc = "start"

\* cleanupName(name)
CleanOnce ==
    /\ cpc = "start"
    /\ out1' = cleanupName(name)
    /\ cpc' = "once"
    /\ UNCHANGED <<name, out2>>
    /\ UNCHANGED <<cspVars, hdrVars, plugVars, songVars, imgVars, lifeVars>>

\* cleanupName(cleanupName(name))
CleanTwice ==
    /\ cpc = "once"
    /\ out2' = cleanupName(out1)
    /\ cpc' = "twice"
    /\ UNCHANGED <<name, out1>>
    /\ UNCHANGED <<cspVars, hdrVars, plugVars, songVars, imgVars, lifeVars>>

CleanNext == CleanOnce \/ CleanTwice

----------------------------------------------------------------------------
(* index.js, removeContentSecurityPolicy: the onHeadersReceived listener.   *)
(* details.responseHeaders is a map from header names to arrays of strings; *)
(* the map is a function whose domain is the set of names present.          *)

CspHeader == "content-security-policy"
CspReportOnlyHeader == "content-security-policy-report-only"

\* details.responseHeaders[k] as a condition: undefined when the name is
\* absent, an array (truthy, even when empty) when it is present
HeaderTruthy(h, k) == k \in DOMAIN h

\* delete details.responseHeaders[k]
DeleteHeader(h, k) == [x \in (DOMAIN h) \ {k} |-> h[x]]

\* a listener that forgets the report-only variant
cspListenerOneHeader(h) ==
    IF ~HeaderTruthy(h, CspHeader)
    THEN [result |-> [cancel |-> FALSE], headers |-> h]
    ELSE LET h1 == DeleteHeader(h, CspHeader)
         IN [result |-> [cancel |-> FALSE, responseHeaders |-> h1], headers |-> h1]

\* the listener function(details, callback): result is what it hands to
\* callback, headers is details.responseHeaders when it returns
cspListener(h) ==
    IF ~HeaderTruthy(h, CspReportOnlyHeader) /\ ~HeaderTruthy(h, CspHeader)
    THEN [result |-> [cancel |-> FALSE], headers |-> h]
    ELSE LET h1 == DeleteHeader(DeleteHeader(h, CspReportOnlyHeader), CspHeader)
         IN [result |-> [cancel |-> FALSE, responseHeaders |-> h1], headers |-> h1]

\* The response header maps drawn for the listener: any subset of these
\* names (the two CSP names in lower case, one of them capitalised as a
\* server may send it, and two unrelated names), each with one of the values.
HeaderNames ==
    { CspHeader, CspReportOnlyHeader, "Content-Security-Policy",
      "x-frame-options", "content-type" }
HeaderValues == { <<"v1">>, <<"v1", "v2">> }
HeaderMaps == UNION { [S -> HeaderValues] : S \in SUBSET HeaderNames }

NoResult == [none |-> TRUE]

CspIdle ==
    /\ cspIn = <<>>
    /\ cspOut = NoResult
    /\ cspDetails = <<>>
    /\ cspPc = "idle"

CspInit ==
    /\ cspIn \in HeaderMaps
    /\ cspOut = NoResult
    /\ cspDetails = cspIn
    /\ cspPc = "start"

\* the listener is called with details.responseHeaders = cspIn
CspListenerCall ==
    /\ cspPc = "start"
    /\ cspOut' = cspListener(cspDetails).result
    /\ cspDetails' = cspListener(cspDetails).headers
    /\ cspPc' = "called"
    /\ UNCHANGED cspIn
    /\ UNCHANGED <<cleanVars, hdrVars, plugVars, songVars, imgVars, lifeVars>>

CspNext == CspListenerCall

----------------------------------------------------------------------------
(* index.js: the window lifecycle as far as it registers listeners, and the *)
(* resolver that removeContentSecurityPolicy sets for "onHeadersReceived".  *)
(*                                                                          *)
(* electron-better-web-request keeps the listeners of an event in           *)
(* registration order; on every event it hands the resolver one entry per   *)
(* listener whose apply() calls the listener with (details, callback) and   *)
(* returns a promise of what the listener gives to callback (rejected when  *)
(* the listener throws), awaits what the resolver returns and gives it to   *)
(* the native hook.  All listeners of an event share one details object.    *)

MaxListeners == 3

HeaderA == "x-a"

\* what a plugin's listener may hand to its callback
PluginResults ==
    { [cancel |-> TRUE],
      [cancel |-> FALSE],
      [responseHeaders |-> (HeaderA :> <<"1">>)],
      [cancel |-> FALSE, responseHeaders |-> (HeaderA :> <<"2">>)] }

\* the response header maps of the events
EventHeaderMaps ==
    { <<>>,
      (CspHeader :> <<"v1">>),
      (CspHeader :> <<"v1">>) @@ (CspReportOnlyHeader :> <<"v1">>)
          @@ ("x-frame-options" :> <<"v1">>) }

Pending == [st |-> "pending", val |-> <<>>]
Fulfilled(r) == [st |-> "fulfilled", val |-> r]
Rejected == [st |-> "rejected", val |-> <<>>]

\* the accumulator argument of a reduce callback: the initial object for the
\* first callback, the promise returned by the previous callback afterwards
ObjectAcc(r) == [kind |-> "object", val |-> r, pos |-> 0]
PromiseAcc(p) == [kind |-> "promise", val |-> <<>>, pos |-> p]

InitialAccumulator == [cancel |-> FALSE]

AccumulatorAt(p) == IF p = 1 THEN ObjectAcc(InitialAccumulator) ELSE PromiseAcc(p - 1)

\* accumulator.cancel as a condition: a promise has no property cancel
AccumulatorCancel(acc) == acc.kind = "object" /\ acc.val.cancel

\* ...accumulator: a promise has no own enumerable properties
SpreadAccumulator(acc) == IF acc.kind = "object" THEN acc.val ELSE <<>>

\* { ...a, ...b }
Merge(a, b) ==
    [f \in (DOMAIN a) \cup (DOMAIN b) |-> IF f \in DOMAIN b THEN b[f] ELSE a[f]]

\* listeners.reduceRight visits the listeners last to first
ReduceRightOrder(n) == [p \in 1..n |-> n + 1 - p]

\* listeners.reduce visits the listeners first to last
ReduceOrder(n) == [p \in 1..n |-> p]

\* The synchronous part of listeners.reduce(async (accumulator, listener) =>
\* ...) from callback p on: each callback runs up to its await.  st holds
\* details.responseHeaders, the listeners' states and results, and the order
\* in which results were handed back.
RECURSIVE ReduceFrom(_, _, _)
ReduceFrom(p, ls, st) ==
    IF p > Len(ls) THEN st
    ELSE LET k == ReduceOrder(Len(ls))[p]
             acc == AccumulatorAt(p)
         IN IF AccumulatorCancel(acc)
            THEN ReduceFrom(p + 1, ls, [st EXCEPT !.lst[k] = "skipped"])
            ELSE IF ls[k] = "csp"
                 THEN LET r == cspListener(st.details)
                      IN ReduceFrom(p + 1, ls,
                             [st EXCEPT !.lst[k] = "returned",
                                        !.results[k] = r.result,
                                        !.details = r.headers,
                                        !.order = Append(@, k)])
                 ELSE ReduceFrom(p + 1, ls, [st EXCEPT !.lst[k] = "running"])

HdrIdleEvent ==
    /\ evPc = "idle"
    /\ evListeners = <<>>
    /\ details = <<>>
    /\ lst = <<>>
    /\ results = <<>>
    /\ returnedOrder = <<>>
    /\ prom = <<>>
    /\ response = [st |-> "none", val |-> <<>>]
    /\ deliveries = 0

HdrIdle ==
    /\ mainWindow = "undefined"
    /\ listeners = <<>>
    /\ resolverSet = FALSE
    /\ HdrIdleEvent

\* removeContentSecurityPolicy(): registers the CSP listener and sets the
\* resolver
removeContentSecurityPolicy ==
    /\ listeners' = Append(listeners, "csp")
    /\ resolverSet' = TRUE

LifeIdle ==
    /\ onceRegistered = TRUE
    /\ windowsCreated = 0
    /\ setupWindows = <<>>

\* app.on(event, handler): the handler stays registered when the event is
\* emitted
onAfterEmit(registered) == registered

\* app.once(event, handler): the handler is removed when the event is emitted
onceAfterEmit(registered) == FALSE

\* new electron.BrowserWindow(...) in createMainWindow: the app emits
\* "browser-window-created" with the new window; the handler, when app.once
\* still holds it, calls setupSongInfo(win) and loadPlugins(win), which starts
\* a fileExists probe for every enabled plugin
BrowserWindowCreated ==
    /\ windowsCreated' = windowsCreated + 1
    /\ IF onceRegistered
       THEN /\ onceRegistered' = onceAfterEmit(onceRegistered)
            /\ setupWindows' = Append(setupWindows, windowsCreated + 1)
            /\ pendingProbes' = pendingProbes \cup DOMAIN enabledPlugins
            /\ loadPc' = "iterated"
            /\ UNCHANGED <<enabledPlugins, activations, reportedErrors>>
       ELSE UNCHANGED <<onceRegistered, setupWindows, plugVars>>

\* app.on("ready"): mainWindow = createMainWindow()
AppReady ==
    /\ mainWindow = "undefined"
    /\ Len(listeners) < MaxListeners
    /\ mainWindow' = "window"
    /\ BrowserWindowCreated
    /\ removeContentSecurityPolicy
    /\ UNCHANGED <<evVars, cleanVars, cspVars, songVars, imgVars>>

\* win.on("closed", onClosed)
onClosed ==
    /\ mainWindow = "window"
    /\ mainWindow' = "null"
    /\ UNCHANGED <<listeners, resolverSet, evVars>>
    /\ UNCHANGED <<cleanVars, cspVars, plugVars, songVars, imgVars, lifeVars>>

\* app.on("activate") with mainWindow === null: createMainWindow()
Activate ==
    /\ mainWindow = "null"
    /\ Len(listeners) < MaxListeners
    /\ mainWindow' = "window"
    /\ BrowserWindowCreated
    /\ removeContentSecurityPolicy
    /\ UNCHANGED <<evVars, cleanVars, cspVars, songVars, imgVars>>

\* a plugin calls session.webRequest.onHeadersReceived(listener)
PluginRegistersListener ==
    /\ mainWindow # "undefined"
    /\ Len(listeners) < MaxListeners
    /\ listeners' = Append(listeners, "plugin")
    /\ UNCHANGED <<mainWindow, resolverSet, evVars>>
    /\ UNCHANGED <<cleanVars, cspVars, plugVars, songVars, imgVars, lifeVars>>

\* a response's headers arrive: the resolver is called with the listeners
\* registered now and runs listeners.reduce up to each callback's await
HeadersReceived(h) ==
    /\ evPc = "idle"
    /\ resolverSet
    /\ LET n == Len(listeners)
           st == ReduceFrom(1, listeners,
                     [details |-> h,
                      lst |-> [k \in 1..n |-> "idle"],
                      results |-> [k \in 1..n |-> NoResult],
                      order |-> <<>>])
       IN /\ evListeners' = listeners
          /\ details' = st.details
          /\ lst' = st.lst
          /\ results' = st.results
          /\ returnedOrder' = st.order
          /\ prom' = [p \in 1..n |-> Pending]
    /\ evPc' = "resolving"
    /\ UNCHANGED <<response, deliveries, regVars>>
    /\ UNCHANGED <<cleanVars, cspVars, plugVars, songVars, imgVars, lifeVars>>

\* a plugin's listener hands r to its callback
PluginCallback(k, r) ==
    /\ evPc # "idle"
    /\ k \in DOMAIN lst
    /\ lst[k] = "running"
    /\ lst' = [lst EXCEPT ![k] = "returned"]
    /\ results' = [results EXCEPT ![k] = r]
    /\ returnedOrder' = Append(returnedOrder, k)
    /\ UNCHANGED <<evPc, evListeners, details, prom, response, deliveries,
                   regVars, cleanVars, cspVars, plugVars, songVars, imgVars, lifeVars>>

\* a plugin's listener throws: the promise of apply() is rejected
PluginThrows(k) ==
    /\ evPc # "idle"
    /\ k \in DOMAIN lst
    /\ lst[k] = "running"
    /\ lst' = [lst EXCEPT ![k] = "failed"]
    /\ UNCHANGED <<evPc, evListeners, details, results, returnedOrder, prom,
                   response, deliveries, regVars>>
    /\ UNCHANGED <<cleanVars, cspVars, plugVars, songVars, imgVars, lifeVars>>

\* callback p resumes after its await (or returns its accumulator) and
\* settles the promise it returned
CallbackSettles(p) ==
    /\ evPc # "idle"
    /\ p \in DOMAIN prom
    /\ prom[p] = Pending
    /\ LET k == ReduceOrder(Len(evListeners))[p]
           acc == AccumulatorAt(p)
       IN \/ /\ lst[k] = "returned"
             /\ prom' = [prom EXCEPT
                            ![p] = Fulfilled(Merge(SpreadAccumulator(acc), results[k]))]
          \/ /\ lst[k] = "failed"
             /\ prom' = [prom EXCEPT ![p] = Rejected]
          \/ /\ lst[k] = "skipped"
             /\ acc.kind = "object" \/ prom[acc.pos] # Pending
             /\ prom' = [prom EXCEPT
                            ![p] = IF acc.kind = "object"
                                   THEN Fulfilled(acc.val) ELSE prom[acc.pos]]
    /\ UNCHANGED <<evPc, evListeners, details, lst, results, returnedOrder,
                   response, deliveries, regVars>>
    /\ UNCHANGED <<cleanVars, cspVars, plugVars, songVars, imgVars, lifeVars>>

\* the promise the resolver returned (the last callback's) is fulfilled: its
\* value is given to the native hook
ResponseDelivered ==
    /\ evPc = "resolving"
    /\ prom[Len(prom)].st = "fulfilled"
    /\ response' = [st |-> "ok", val |-> prom[Len(prom)].val]
    /\ deliveries' = deliveries + 1
    /\ evPc' = "delivered"
    /\ UNCHANGED <<evListeners, details, lst, results, returnedOrder, prom,
                   regVars, cleanVars, cspVars, plugVars, songVars, imgVars, lifeVars>>

\* the promise the resolver returned is rejected: no response is produced
ResolutionFails ==
    /\ evPc = "resolving"
    /\ prom[Len(prom)].st = "rejected"
    /\ response' = [st |-> "failed", val |-> <<>>]
    /\ evPc' = "aborted"
    /\ UNCHANGED <<evListeners, details, lst, results, returnedOrder, prom,
                   deliveries, regVars, cleanVars, cspVars, plugVars, songVars, imgVars, lifeVars>>

\* the event is over once every listener and every callback has finished
EventEnds ==
    /\ evPc \in {"delivered", "aborted"}
    /\ \A k \in DOMAIN lst : lst[k] # "running"
    /\ \A p \in DOMAIN prom : prom[p] # Pending
    /\ evPc' = "idle"
    /\ evListeners' = <<>>
    /\ details' = <<>>
    /\ lst' = <<>>
    /\ results' = <<>>
    /\ returnedOrder' = <<>>
    /\ prom' = <<>>
    /\ response' = [st |-> "none", val |-> <<>>]
    /\ deliveries' = 0
    /\ UNCHANGED <<regVars, cleanVars, cspVars, plugVars, songVars, imgVars, lifeVars>>

HdrNext ==
    \/ AppReady
    \/ PluginRegistersListener
    \/ onClosed
    \/ Activate
    \/ \E h \in EventHeaderMaps : HeadersReceived(h)
    \/ \E k \in 1..MaxListeners, r \in PluginResults : PluginCallback(k, r)
    \/ \E k \in 1..MaxListeners : PluginThrows(k)
    \/ \E p \in 1..MaxListeners : CallbackSettles(p)
    \/ ResponseDelivered
    \/ ResolutionFails
    \/ EventEnds

----------------------------------------------------------------------------
(* index.js, loadPlugins.  An enabled plugin is [plugin, options, backend]: *)
(* backend tells whether plugins/<plugin>/back.js is absent, loads and      *)
(* activates, or throws when it is required or called.                      *)

MaxPlugins == 3

BackendKinds == {"absent", "loads", "throws"}

FirstWindow == "win"

PluginEntry(i, kind) == [plugin |-> i, options |-> [optionsOf |-> i], backend |-> kind]

\* config.plugins.getEnabled(): the ordered lists of enabled plugins
EnabledLists ==
    UNION { { [i \in 1..n |-> PluginEntry(i, kinds[i])] : kinds \in [1..n -> BackendKinds] }
            : n \in 0..MaxPlugins }

\* fileExists(pluginPath, callback) of plugins/utils: probes the path and
\* calls callback, from the probe's own completion, only when the file exists;
\* what callback throws goes to the process's error handler, not to the caller
fileExists(entry) == entry.backend # "absent"

\* a callback that sees the loop's last options (a variable shared by all
\* iterations) when the probe completes
handleArgsLastOptions(win, entry) ==
    [plugin |-> entry.plugin, win |-> win,
     options |-> enabledPlugins[Len(enabledPlugins)].options]

\* handle(win, options): the arguments the plugin's entry point is called with
handleArgs(win, entry) ==
    [plugin |-> entry.plugin, win |-> win, options |-> entry.options]

PlugIdle ==
    /\ enabledPlugins = <<>>
    /\ loadPc = "idle"
    /\ pendingProbes = {}
    /\ activations = <<>>
    /\ reportedErrors = {}

PlugInit ==
    /\ enabledPlugins \in EnabledLists
    /\ loadPc = "start"
    /\ pendingProbes = {}
    /\ activations = <<>>
    /\ reportedErrors = {}

\* the enabled plugins of the configuration, before any window exists
PlugConfigured ==
    /\ enabledPlugins \in EnabledLists
    /\ loadPc = "idle"
    /\ pendingProbes = {}
    /\ activations = <<>>
    /\ reportedErrors = {}

\* loadPlugins(win): getEnabled().forEach calls fileExists for every plugin
loadPlugins ==
    /\ loadPc = "start"
    /\ pendingProbes' = DOMAIN enabledPlugins
    /\ loadPc' = "iterated"
    /\ UNCHANGED <<enabledPlugins, activations, reportedErrors>>
    /\ UNCHANGED <<cleanVars, cspVars, hdrVars, songVars, imgVars, lifeVars>>

\* the probe of plugin i completes; when the backend exists the callback
\* requires it and calls handle(win, options)
FileExistsCompletes(i) ==
    /\ i \in pendingProbes
    /\ pendingProbes' = pendingProbes \ {i}
    /\ IF fileExists(enabledPlugins[i])
       THEN /\ activations' = Append(activations, handleArgs(FirstWindow, enabledPlugins[i]))
            /\ reportedErrors' = IF enabledPlugins[i].backend = "throws"
                                 THEN reportedErrors \cup {i} ELSE reportedErrors
       ELSE UNCHANGED <<activations, reportedErrors>>
    /\ UNCHANGED <<enabledPlugins, loadPc>>
    /\ UNCHANGED <<cleanVars, cspVars, hdrVars, songVars, imgVars, lifeVars>>

PlugNext ==
    \/ loadPlugins
    \/ \E i \in 1..MaxPlugins : FileExistsCompletes(i)

----------------------------------------------------------------------------
(* providers/song-info: songInfo, handleData, registerCallback and          *)
(* registerProvider.  Every call of a handler is a task; an await on the    *)
(* page (executeJavaScript) or on the network (fetch) suspends the task and *)
(* lets the handlers of other events run before it resumes.                 *)

MaxTriggers == 2
MaxObservers == 2

Bool(b) == [t |-> "boolean", v |-> b]

\* x || y for values that are strings or undefined
OrElse(x, y) == IF Falsy(x) THEN y ELSE x

\* const songInfo = { ... }
EmptySongInfo ==
    [ title |-> Str(<<>>),
      artist |-> Str(<<>>),
      views |-> 0,
      uploadDate |-> Str(<<>>),
      imageSrc |-> Str(<<>>),
      image |-> "null",
      isPaused |-> Undefined,
      songDuration |-> 0,
      elapsedSeconds |-> 0,
      url |-> Str(<<>>) ]

\* The texts a "song-info-request" may carry: what JSON.parse makes of them
\* (parses = FALSE: JSON.parse throws).  thumbnails holds the url of each
\* entry of videoDetails.thumbnail.thumbnails.
PayloadSongTopic ==
    [ parses |-> TRUE,
      title |-> Str(SongChars \o TopicSuffix),
      author |-> Str(BandChars),
      viewCount |-> 10,
      thumbnails |-> << Str(<<"a", ".", "j", "p", "g">>) >>,
      lengthSeconds |-> 180,
      uploadDate |-> Str(<<"2", "0", "2", "0">>),
      urlCanonical |-> Str(<<"x">>) ]

PayloadOfficialVideo ==
    [ parses |-> TRUE,
      title |-> Str(<<"L", "i", "v", "e">> \o OfficialVideoSuffix),
      author |-> Str(ArtistChars \o VevoSuffix),
      viewCount |-> 20,
      thumbnails |-> << Str(<<"s", ".", "j", "p", "g">>),
                        Str(<<"b", ".", "j", "p", "g">>) >>,
      lengthSeconds |-> 240,
      uploadDate |-> Str(<<"2", "0", "2", "1">>),
      urlCanonical |-> Str(<<"y">>) ]

PayloadNoThumbnail ==
    [ parses |-> TRUE,
      title |-> Str(SongChars),
      author |-> Undefined,
      viewCount |-> 30,
      thumbnails |-> << >>,
      lengthSeconds |-> 200,
      uploadDate |-> Undefined,
      urlCanonical |-> Undefined ]

Malformed ==
    [ parses |-> FALSE,
      title |-> Undefined,
      author |-> Undefined,
      viewCount |-> 0,
      thumbnails |-> << >>,
      lengthSeconds |-> 0,
      uploadDate |-> Undefined,
      urlCanonical |-> Undefined ]

ResponseTexts == { PayloadSongTopic, PayloadOfficialVideo, PayloadNoThumbnail, Malformed }

\* what the page answers: document.title, the progress bar's value, and the
\* text of the player bar's subtitle (undefined when the element is missing)
PageTitles ==
    { <<"Y", "T", "M">>, SongChars \o <<" ", "-", " ">> \o <<"Y", "T", "M">> }
ProgressValues == { 0, 42 }
DomArtists == { Undefined, Str(<<>>), Str(<<"D", "o", "m">>) }

\* what nativeImage.createFromBuffer gives for the fetched thumbnail
Images == { "image", "empty" }

\* data?.videoDetails?.thumbnail?.thumbnails?.pop()?.url
LastThumbnailUrl(data) ==
    IF data.thumbnails = << >> THEN Undefined ELSE data.thumbnails[Len(data.thumbnails)]

\* a title handler that takes the title's containing "-" for paused
getPausedStatusContains(title) == includes(title, <<"-">>)

\* getPausedStatus: !title.includes("-")
getPausedStatus(title) == ~includes(title, <<"-">>)

\* a forEach that starts at the second callback
forEachFromSecond(cbs, snap) ==
    [i \in 1..(Len(cbs) - 1) |-> [obs |-> cbs[i + 1], snap |-> snap]]

\* callbacks.forEach((c) => { c(songInfo); }): the calls made, in order
forEachCallback(cbs, snap) ==
    [i \in 1..Len(cbs) |-> [obs |-> cbs[i], snap |-> snap]]

\* c(songInfo) hands every callback the module's one songInfo object, not a
\* copy: what a callback kept from a call is that object, read now
RetainedSnapshot(call) == songInfo

\* A task is one call of a handler: its kind, the await it is suspended at,
\* the parsed data of a report and what the page answered to getArtist.  A
\* task that has ended leaves its slot free; triggers counts the handler
\* calls so far.
Task(kind, pc, data) == [kind |-> kind, pc |-> pc, data |-> data, dom |-> Undefined]
FreeSlot == Task("none", "free", Malformed)

\* the first free slot
NextSlot == CHOOSE t \in DOMAIN tasks :
                tasks[t] = FreeSlot /\ \A u \in DOMAIN tasks : u < t => tasks[u] # FreeSlot

NoPublish == [kind |-> "none", data |-> Malformed, dom |-> Undefined,
              registered |-> <<>>, snap |-> EmptySongInfo]
\* the fields of songInfo that hold a string, a boolean or undefined
ValueFields == {"title", "artist", "uploadDate", "imageSrc", "isPaused", "url"}

\* JSON.stringify(songInfo): a field whose value is undefined is left out, and
\* a NativeImage, which has no enumerable property of its own, becomes {}
stringify(info) ==
    [f \in {g \in DOMAIN info : g \in ValueFields => info[g].t # "undefined"} |->
        IF f = "image"
        THEN (IF info.image = "null" THEN "null" ELSE "{}")
        ELSE info[f]]

NoMessage == [channel |-> "none", text |-> [none |-> TRUE]]

SongIdle ==
    /\ callbacks = <<>>
    /\ songInfo = EmptySongInfo
    /\ triggers = 0
    /\ tasks = [t \in 1..MaxTriggers |-> FreeSlot]
    /\ lastPublish = NoPublish
    /\ delivered = <<>>
    /\ lastSent = NoMessage
    /\ rejections = {}

\* registerCallback(callback)
registerCallback ==
    /\ Len(callbacks) < MaxObservers
    /\ callbacks' = Append(callbacks, Len(callbacks) + 1)
    /\ UNCHANGED <<songInfo, triggers, tasks, lastPublish, delivered, lastSent, rejections>>
    /\ UNCHANGED <<cleanVars, cspVars, hdrVars, plugVars, imgVars, lifeVars>>

\* the handler of task t calls every callback with songInfo
Publish(t, info) ==
    /\ lastPublish' = [kind |-> tasks[t].kind, data |-> tasks[t].data, dom |-> tasks[t].dom,
                       registered |-> callbacks, snap |-> info]
    /\ delivered' = forEachCallback(callbacks, info)

\* win.on("page-title-updated"): the handler starts and awaits document.title
PageTitleUpdated ==
    /\ triggers < MaxTriggers
    /\ triggers' = triggers + 1
    /\ tasks' = [tasks EXCEPT ![NextSlot] = Task("title", "getPausedStatus", Malformed)]
    /\ UNCHANGED <<callbacks, songInfo, lastPublish, delivered, lastSent, rejections>>
    /\ UNCHANGED <<cleanVars, cspVars, hdrVars, plugVars, imgVars, lifeVars>>

\* songInfo.isPaused = await getPausedStatus(win); then getProgress is awaited
PausedStatusRead(t, title) ==
    /\ tasks[t].pc = "getPausedStatus"
    /\ songInfo' = [songInfo EXCEPT !.isPaused = Bool(getPausedStatus(title))]
    /\ tasks' = [tasks EXCEPT ![t].pc = "getProgress"]
    /\ UNCHANGED <<callbacks, triggers, lastPublish, delivered, lastSent, rejections>>
    /\ UNCHANGED <<cleanVars, cspVars, hdrVars, plugVars, imgVars, lifeVars>>

\* songInfo.elapsedSeconds = elapsedSeconds; callbacks.forEach
ProgressRead(t, value) ==
    /\ tasks[t].pc = "getProgress"
    /\ LET info == [songInfo EXCEPT !.elapsedSeconds = value]
       IN /\ songInfo' = info
          /\ Publish(t, info)
    /\ lastSent' = NoMessage
    /\ tasks' = [tasks EXCEPT ![t] = FreeSlot]
    /\ UNCHANGED <<callbacks, triggers, rejections>>
    /\ UNCHANGED <<cleanVars, cspVars, hdrVars, plugVars, imgVars, lifeVars>>

\* a handleData that assigns the title before it finds the text malformed
SongInfoRequestAssignsFirst(text) ==
    /\ triggers < MaxTriggers
    /\ triggers' = triggers + 1
    /\ songInfo' = [songInfo EXCEPT !.title = cleanupName(text.title)]
    /\ IF text.parses
       THEN /\ tasks' = [tasks EXCEPT ![NextSlot] = Task("data", "getArtist", text)]
            /\ UNCHANGED rejections
       ELSE /\ rejections' = rejections \cup {"JSON.parse"}
            /\ UNCHANGED tasks
    /\ UNCHANGED <<callbacks, lastPublish, delivered, lastSent>>
    /\ UNCHANGED <<cleanVars, cspVars, hdrVars, plugVars, imgVars, lifeVars>>

\* ipcMain.on("song-info-request"): handleData parses the text, sets the
\* title and awaits getArtist; when JSON.parse throws, the handler's promise
\* is rejected and nothing else happens
SongInfoRequest(text) ==
    /\ triggers < MaxTriggers
    /\ triggers' = triggers + 1
    /\ IF text.parses
       THEN /\ songInfo' = [songInfo EXCEPT !.title = cleanupName(text.title)]
            /\ tasks' = [tasks EXCEPT ![NextSlot] = Task("data", "getArtist", text)]
            /\ UNCHANGED rejections
       ELSE /\ rejections' = rejections \cup {"JSON.parse"}
            /\ UNCHANGED <<songInfo, tasks>>
    /\ UNCHANGED <<callbacks, lastPublish, delivered, lastSent>>
    /\ UNCHANGED <<cleanVars, cspVars, hdrVars, plugVars, imgVars, lifeVars>>

\* handleData resumes with the page's artist: artist, views, imageSrc and
\* songDuration are set and getImage(songInfo.imageSrc) is awaited
ArtistRead(t, artist) ==
    /\ tasks[t].pc = "getArtist"
    /\ LET data == tasks[t].data
       IN songInfo' = [songInfo EXCEPT
              !.artist = OrElse(artist, cleanupName(data.author)),
              !.views = data.viewCount,
              !.imageSrc = LastThumbnailUrl(data),
              !.songDuration = data.lengthSeconds]
    /\ tasks' = [tasks EXCEPT ![t].pc = "getImage", ![t].dom = artist]
    /\ UNCHANGED <<callbacks, triggers, lastPublish, delivered, lastSent, rejections>>
    /\ UNCHANGED <<cleanVars, cspVars, hdrVars, plugVars, imgVars, lifeVars>>

\* getImage returns an image: image, uploadDate and url are set, the
\* serialized songInfo is sent on "update-song-info", handleData returns and
\* the handler calls the callbacks
ImageResolved(t, img) ==
    /\ tasks[t].pc = "getImage"
    /\ LastThumbnailUrl(tasks[t].data) # Undefined
    /\ LET data == tasks[t].data
           info == [songInfo EXCEPT
                       !.image = img,
                       !.uploadDate = data.uploadDate,
                       !.url = data.urlCanonical]
       IN /\ songInfo' = info
          /\ lastSent' = [channel |-> "update-song-info", text |-> stringify(info)]
          /\ Publish(t, info)
    /\ tasks' = [tasks EXCEPT ![t] = FreeSlot]
    /\ UNCHANGED <<callbacks, triggers, rejections>>
    /\ UNCHANGED <<cleanVars, cspVars, hdrVars, plugVars, imgVars, lifeVars>>

\* fetch fails (no URL, or the network): getImage, handleData and the
\* handler's promise are rejected
ImageFetchFails(t) ==
    /\ tasks[t].pc = "getImage"
    /\ tasks' = [tasks EXCEPT ![t] = FreeSlot]
    /\ rejections' = rejections \cup {"fetch"}
    /\ UNCHANGED <<callbacks, triggers, songInfo, lastPublish, delivered, lastSent>>
    /\ UNCHANGED <<cleanVars, cspVars, hdrVars, plugVars, imgVars, lifeVars>>

SongNext ==
    \/ registerCallback
    \/ PageTitleUpdated
    \/ \E t \in 1..MaxTriggers, title \in PageTitles : PausedStatusRead(t, title)
    \/ \E t \in 1..MaxTriggers, value \in ProgressValues : ProgressRead(t, value)
    \/ \E text \in ResponseTexts : SongInfoRequest(text)
    \/ \E t \in 1..MaxTriggers, artist \in DomArtists : ArtistRead(t, artist)
    \/ \E t \in 1..MaxTriggers, img \in Images : ImageResolved(t, img)
    \/ \E t \in 1..MaxTriggers : ImageFetchFails(t)

----------------------------------------------------------------------------
(* providers/song-info: getImage.  fetch and nativeImage.createFromBuffer   *)
(* are the page's network: a fetch either fails or gives a buffer that      *)
(* decodes to an image or to an empty image.                                *)

MaxUrlPieces == 3

JpgExtension == <<".", "j", "p", "g">>

\* String.prototype.lastIndexOf: the index, from 0, of the last occurrence,
\* or -1
lastIndexOf(s, part) ==
    LET occ == { i \in 1..(Len(s) - Len(part) + 1) : SubSeq(s, i, i + Len(part) - 1) = part }
    IN IF occ = {} THEN -1 ELSE (CHOOSE i \in occ : \A j \in occ : j <= i) - 1

\* s.slice(0, end) for end >= 0
sliceTo(s, end) == SubSeq(s, 1, IF end > Len(s) THEN Len(s) ELSE end)

\* src.slice(0, src.lastIndexOf(".jpg") + 4)
RetryUrl(src) == sliceTo(src, lastIndexOf(src, JpgExtension) + 4)

\* a retry condition without the test on the URL's end
NeedsRetryAnyEnd(output, src) == output = "empty" /\ includes(src, JpgExtension)

\* output.isEmpty() && !src.endsWith(".jpg") && src.includes(".jpg")
NeedsRetry(output, src) ==
    /\ output = "empty"
    /\ ~endsWith(src, JpgExtension)
    /\ includes(src, JpgExtension)

\* thumbnail URLs: an absolute base followed by up to MaxUrlPieces pieces
UrlBase == <<"h", "t", "t", "p", "s", ":", "/", "/", "i", "/", "v">>
UrlPieces == { JpgExtension, <<"=", "w">>, <<".", "w", "e", "b", "p">> }
ThumbnailUrls ==
    UNION { { UrlBase \o Flatten(ps) : ps \in [1..n -> UrlPieces] } : n \in 0..MaxUrlPieces }

ImgIdle ==
    /\ imgSrc = <<>>
    /\ imgPc = "idle"
    /\ fetched = <<>>
    /\ outputs = <<>>
    /\ imgResult = "none"

ImgInit ==
    /\ imgSrc \in ThumbnailUrls
    /\ imgPc = "start"
    /\ fetched = <<>>
    /\ outputs = <<>>
    /\ imgResult = "none"

\* getImage(imgSrc) is called: fetch(src) is awaited
getImage ==
    /\ imgPc = "start"
    /\ fetched' = <<imgSrc>>
    /\ imgPc' = "fetching"
    /\ UNCHANGED <<imgSrc, outputs, imgResult>>
    /\ UNCHANGED <<cleanVars, cspVars, hdrVars, plugVars, songVars, lifeVars>>

\* the fetch and result.buffer() of the current call settle and the buffer
\* decodes to output: the call either returns getImage(RetryUrl(src)), whose
\* fetch is then awaited, or returns output
FetchSettles(output) ==
    /\ imgPc = "fetching"
    /\ outputs' = Append(outputs, output)
    /\ LET src == fetched[Len(fetched)]
       IN IF NeedsRetry(output, src)
          THEN /\ fetched' = Append(fetched, RetryUrl(src))
               /\ UNCHANGED <<imgPc, imgResult>>
          ELSE /\ imgPc' = "returned"
               /\ imgResult' = output
               /\ UNCHANGED fetched
    /\ UNCHANGED imgSrc
    /\ UNCHANGED <<cleanVars, cspVars, hdrVars, plugVars, songVars, lifeVars>>

\* the fetch of the current call fails: every getImage call in the chain is
\* rejected
FetchRejects ==
    /\ imgPc = "fetching"
    /\ outputs' = Append(outputs, "rejected")
    /\ imgPc' = "rejected"
    /\ UNCHANGED <<imgSrc, fetched, imgResult>>
    /\ UNCHANGED <<cleanVars, cspVars, hdrVars, plugVars, songVars, lifeVars>>

ImgNext ==
    \/ getImage
    \/ \E output \in Images : FetchSettles(output)
    \/ FetchRejects

----------------------------------------------------------------------------
(* Claims about cleanupName *)

\* some listed suffix ends the string s
SomeSuffixEnds(s) == \E i \in 1..Len(suffixesToRemove) : endsWith(s, suffixesToRemove[i])

\* the first listed suffix, in list order, that ends s
FirstSuffixEnding(s) ==
    suffixesToRemove[CHOOSE i \in 1..Len(suffixesToRemove) :
        /\ endsWith(s, suffixesToRemove[i])
        /\ \A j \in 1..(i - 1) : ~endsWith(s, suffixesToRemove[j])]

ArtistVevoVevo == Str(ArtistChars \o SpaceVevo \o SpaceVevo)
ArtistVevo == Str(ArtistChars \o SpaceVevo)
ArtistVevoSpace == Str(ArtistChars \o SpaceVevo \o <<" ">>)
BandTopicTopic == Str(BandChars \o TopicSuffix \o TopicSuffix)

\* C6 as stated: name cleanup is idempotent,
\* cleanupName(cleanupName(s)) = cleanupName(s) for every input s.
C6_Idempotent == cpc = "twice" => out2 = out1

\* C6 as amended: applying cleanupName a second time changes nothing exactly
\* when the first result is empty/absent or ends with no listed suffix;
\* otherwise the second application removes one more suffix.
C6_IdempotentUnlessStacked ==
    cpc = "twice" =>
        IF Falsy(out1) \/ ~SomeSuffixEnds(out1.v)
        THEN out2 = out1
        ELSE /\ out2 # out1
             /\ out2.v \o FirstSuffixEnding(out1.v) = out1.v

C6_Witness ==
    /\ cpc = "twice"
    /\ name = BandTopicTopic
    /\ out1 = Str(BandChars \o TopicSuffix)
    /\ out2 = Str(BandChars)

\* the general part of C7: when a listed suffix ends the name, the result is
\* the name with the first such suffix (in list order) removed once; when
\* none does, or the name is empty or absent, the input is returned unchanged
StripsFirstSuffixOnce ==
    IF Falsy(name) \/ ~SomeSuffixEnds(name.v)
    THEN out1 = name
    ELSE /\ out1.t = "string"
         /\ out1.v \o FirstSuffixEnding(name.v) = name.v

\* C7 as stated: cleanupName strips at most one suffix per call, the first
\* listed suffix that ends the name, and "Artist VEVO VEVO" gives
\* "Artist VEVO".
C7_AtMostOneSuffixAsStated ==
    cpc # "start" =>
        /\ StripsFirstSuffixOnce
        /\ name = ArtistVevoVevo => out1 = ArtistVevo

\* C7 as amended: cleanupName strips at most one suffix per call, the first
\* listed suffix that ends the name, and nothing else: "Artist VEVO VEVO"
\* gives "Artist VEVO " (the space before the removed suffix stays).
C7_AtMostOneSuffix ==
    cpc # "start" =>
        /\ StripsFirstSuffixOnce
        /\ name = ArtistVevoVevo => out1 = ArtistVevoSpace

C7_Witness ==
    /\ cpc = "once"
    /\ name = ArtistVevoVevo
    /\ out1 = ArtistVevoSpace

----------------------------------------------------------------------------
(* Claims about the CSP listener *)

\* C5: the CSP listener's result always has cancel = false; when neither
\* content-security-policy nor content-security-policy-report-only is present
\* the result carries no header update; when at least one is present the
\* returned headers contain neither name and every other header is unchanged.
C5_CspFilter ==
    cspPc = "called" =>
        /\ cspOut.cancel = FALSE
        /\ IF CspHeader \notin DOMAIN cspIn /\ CspReportOnlyHeader \notin DOMAIN cspIn
           THEN "responseHeaders" \notin DOMAIN cspOut
           ELSE /\ "responseHeaders" \in DOMAIN cspOut
                /\ DOMAIN cspOut.responseHeaders =
                       (DOMAIN cspIn) \ {CspHeader, CspReportOnlyHeader}
                /\ \A k \in DOMAIN cspOut.responseHeaders :
                       cspOut.responseHeaders[k] = cspIn[k]

C5_Witness ==
    /\ cspPc = "called"
    /\ DOMAIN cspIn = {CspHeader, CspReportOnlyHeader, "x-frame-options"}
    /\ DOMAIN cspOut.responseHeaders = {"x-frame-options"}

----------------------------------------------------------------------------
(* Claims about the resolution of a "headers received" event *)

\* listener k has handed a result with cancel = true to its callback
Cancels(k) ==
    /\ lst[k] = "returned"
    /\ "cancel" \in DOMAIN results[k]
    /\ results[k].cancel

\* listener k was invoked for the event
Invoked(k) == lst[k] \in {"running", "returned", "failed"}

\* listener k has handed a result that sets header A
SetsHeaderA(k) ==
    /\ lst[k] = "returned"
    /\ "responseHeaders" \in DOMAIN results[k]
    /\ HeaderA \in DOMAIN results[k].responseHeaders

\* C1: with listeners registered in order L1, L2, if L1's result has
\* cancel = true then L2 is never invoked for that event and the resolved
\* response has cancel = true.
C1_ShortCircuit ==
    \A i, j \in DOMAIN lst :
        (i < j /\ Cancels(i)) =>
            /\ ~Invoked(j)
            /\ response.st = "ok" =>
                   "cancel" \in DOMAIN response.val /\ response.val.cancel

\* C2: for every event whose listeners all return and none of which cancels,
\* exactly one resolved response is produced and it merges the results of all
\* listeners: a field returned by a listener and not returned again by a
\* later listener is in the resolved response with that listener's value.
C2_MergesAllListeners ==
    /\ deliveries <= 1
    /\ ( /\ response.st = "ok"
         /\ \A k \in DOMAIN lst : lst[k] = "returned" /\ ~Cancels(k) )
       => \A k \in DOMAIN lst : \A f \in DOMAIN results[k] :
              (\A j \in DOMAIN lst : j > k => f \notin DOMAIN results[j])
                  => f \in DOMAIN response.val /\ response.val[f] = results[k][f]

C4_OneListenerAtATime ==
    /\ \A k \in DOMAIN lst :
           (k + 1 \in DOMAIN lst /\ Invoked(k + 1)) => prom[k] # Pending
    /\ Cardinality({ k \in DOMAIN lst : lst[k] = "running" }) <= 1

\* C16: installing the interception layer is idempotent per session: creating
\* the main window again after it was closed leaves the registered "headers
\* received" listeners unchanged, and the CSP listener is registered at most
\* once.
C16_InstallIdempotent ==
    /\ [](Cardinality({ k \in DOMAIN listeners : listeners[k] = "csp" }) <= 1)
    /\ [][ (mainWindow = "null" /\ mainWindow' = "window") => listeners' = listeners ]_vars

\* C19: if any listener of an event, at any position, fails while the event
\* is being resolved, the resolution fails and no response is produced for the
\* event.
C19_ListenerFailureAborts ==
    (\E k \in DOMAIN lst : lst[k] = "failed") => response.st # "ok"

----------------------------------------------------------------------------
(* Claims about loadPlugins *)

\* the calls of plugin i's entry point
ActivationsOf(i) == { n \in DOMAIN activations : activations[n].plugin = i }

\* C8: for every ordered list of enabled plugins, a plugin whose backend file
\* does not exist is skipped without any error, and when the activation of one
\* plugin throws, every later enabled plugin whose backend exists is still
\* activated with (window, its own options).
C8_PluginLoading ==
    /\ \A i \in DOMAIN enabledPlugins :
           enabledPlugins[i].backend = "absent" =>
               ActivationsOf(i) = {} /\ i \notin reportedErrors
    /\ (loadPc = "iterated" /\ pendingProbes = {}) =>
           \A i \in DOMAIN enabledPlugins :
               enabledPlugins[i].backend # "absent" =>
                   /\ Cardinality(ActivationsOf(i)) = 1
                   /\ \A n \in ActivationsOf(i) :
                          /\ activations[n].win = FirstWindow
                          /\ activations[n].options = enabledPlugins[i].options

\* a throwing plugin, an absent backend and then a plugin that is activated
C8_Witness ==
    /\ loadPc = "iterated"
    /\ pendingProbes = {}
    /\ Len(enabledPlugins) = 3
    /\ enabledPlugins[1].backend = "throws"
    /\ enabledPlugins[2].backend = "absent"
    /\ enabledPlugins[3].backend = "loads"
    /\ reportedErrors = {1}
    /\ \E n \in DOMAIN activations :
           activations[n] = [plugin |-> 3, win |-> FirstWindow, options |-> [optionsOf |-> 3]]

----------------------------------------------------------------------------
(* Claims about the song-info provider *)

\* C9: the snapshot published by a page-data report has the name-cleaned
\* payload title as title, the scraped DOM artist when that read yields a
\* non-empty value and otherwise the name-cleaned payload author as artist,
\* and the payload's lengthSeconds as songDuration; title "Song - Topic",
\* author "Band", lengthSeconds 180 and no DOM artist publish title "Song",
\* artist "Band", songDuration 180.
C9_PageDataSnapshot ==
    lastPublish.kind = "data" =>
        LET data == lastPublish.data
            dom == lastPublish.dom
            snap == lastPublish.snap
        IN /\ snap.title = cleanupName(data.title)
           /\ snap.artist = (IF dom.t = "string" /\ dom.v # <<>>
                             THEN dom ELSE cleanupName(data.author))
           /\ snap.songDuration = data.lengthSeconds
           /\ (data = PayloadSongTopic /\ dom = Undefined) =>
                  /\ snap.title = Str(SongChars)
                  /\ snap.artist = Str(BandChars)
                  /\ snap.songDuration = 180

\* C10: every publish, from the page-title trigger or from a page-data
\* report, calls each observer registered so far exactly once, in
\* registration order, and all of them receive the same snapshot.
C10_ObserverFanOut ==
    lastPublish.kind # "none" =>
        /\ Len(lastPublish.registered) <= Len(callbacks)
        /\ lastPublish.registered = SubSeq(callbacks, 1, Len(lastPublish.registered))
        /\ Len(delivered) = Len(lastPublish.registered)
        /\ \A i \in DOMAIN delivered :
               /\ delivered[i].obs = lastPublish.registered[i]
               /\ delivered[i].snap = lastPublish.snap

\* a page-title publish, after a page-data report, reaches two observers
C10_Witness ==
    /\ lastPublish.kind = "title"
    /\ lastPublish.snap.title = Str(SongChars)
    /\ lastPublish.snap.isPaused = Bool(FALSE)
    /\ Len(delivered) = 2
    /\ delivered[1].obs = 1
    /\ delivered[2].obs = 2
    /\ delivered[1].snap = delivered[2].snap

\* the handler call in slot t has read or written songInfo: a report writes
\* the title when it arrives, a title trigger writes isPaused at its first
\* resumption
Touched(t) ==
    \/ tasks[t].kind = "data"
    \/ tasks[t].kind = "title" /\ tasks[t].pc = "getProgress"

\* C11: triggers are processed one at a time: while an earlier trigger is
\* suspended no other trigger reads or writes songInfo, so never two handler
\* calls in flight have both touched it; and when a snapshot is published no
\* other call is in flight that has applied some of its fields.
C11_OneTriggerAtATime ==
    /\ [](Cardinality({ t \in DOMAIN tasks : Touched(t) }) <= 1)
    /\ [][ lastPublish' # lastPublish =>
               \A t \in DOMAIN tasks :
                   /\ tasks'[t].kind # "data"
                   /\ ~(tasks'[t].kind = "title" /\ tasks'[t].pc = "getProgress") ]_vars

\* C12: after every publish, from either trigger, the serialized snapshot of
\* that publish has been sent on "update-song-info".
C12_SentAfterEveryPublish ==
    lastPublish.kind # "none" =>
        lastSent = [channel |-> "update-song-info", text |-> stringify(lastPublish.snap)]

\* C13: what an observer retained from the latest publish still equals the
\* snapshot delivered at that publish, whatever later triggers have done.
C13_NewSnapshotPerPublish ==
    \A i \in DOMAIN delivered : RetainedSnapshot(delivered[i]) = delivered[i].snap

\* C14: a report whose payload fails to parse changes no field of songInfo,
\* publishes nothing and starts nothing, its error is logged; and after it the
\* handlers still take the page-title trigger and a well-formed report.
C14_MalformedReport ==
    /\ [][ \A text \in ResponseTexts :
               (~text.parses /\ SongInfoRequest(text)) =>
                   /\ songInfo' = songInfo
                   /\ tasks' = tasks
                   /\ lastPublish' = lastPublish
                   /\ delivered' = delivered
                   /\ lastSent' = lastSent
                   /\ "JSON.parse" \in rejections' ]_vars
    /\ []( ("JSON.parse" \in rejections /\ triggers < MaxTriggers) =>
               /\ ENABLED PageTitleUpdated
               /\ ENABLED SongInfoRequest(PayloadSongTopic) )

\* a malformed report was rejected, and a well-formed report has been
\* published and sent
C14_Witness ==
    /\ "JSON.parse" \in rejections
    /\ triggers = 2
    /\ songInfo = lastPublish.snap
    /\ lastPublish.kind = "data"
    /\ lastPublish.data = PayloadSongTopic
    /\ lastPublish.snap.title = Str(SongChars)
    /\ lastPublish.snap.image = "image"
    /\ Len(delivered) = 1
    /\ lastSent.channel = "update-song-info"

\* C15: every report that reaches the cover image resolution ends with a
\* publish of its snapshot to all observers, and with an empty image when the
\* payload has no thumbnail URL.
C15_ThumbnailFailureNotFatal ==
    [][ \A t \in DOMAIN tasks :
            (tasks[t].pc = "getImage" /\ tasks'[t] # tasks[t]) =>
                /\ lastPublish'.kind = "data"
                /\ lastPublish'.data = tasks[t].data
                /\ Len(delivered') = Len(callbacks)
                /\ LastThumbnailUrl(tasks[t].data) = Undefined =>
                       lastPublish'.snap.image = "empty" ]_vars

\* the fields a page-title trigger must leave alone
ReportFields ==
    {"title", "artist", "views", "uploadDate", "url", "imageSrc", "image", "songDuration"}

\* C18: a page-title trigger sets isPaused to true exactly when the page title
\* has no "-", sets elapsedSeconds to the progress bar's value and publishes;
\* none of its steps changes title, artist, views, uploadDate, url, imageSrc,
\* image or songDuration.
C18_TitleTriggerFrame ==
    [][ \A t \in DOMAIN tasks :
            /\ (tasks[t].kind = "title" /\ tasks'[t] # tasks[t]) =>
                   \A f \in ReportFields : songInfo'[f] = songInfo[f]
            /\ \A title \in PageTitles :
                   PausedStatusRead(t, title) =>
                       /\ songInfo'.isPaused = Bool(\A i \in DOMAIN title : title[i] # "-")
                       /\ songInfo'.elapsedSeconds = songInfo.elapsedSeconds
            /\ \A value \in ProgressValues :
                   ProgressRead(t, value) =>
                       /\ songInfo'.elapsedSeconds = value
                       /\ songInfo'.isPaused = songInfo.isPaused
                       /\ lastPublish'.kind = "title"
                       /\ lastPublish'.snap = songInfo' ]_vars

\* after a report was published, a page-title trigger with a title without
\* "-" and progress 42 has published a paused snapshot with the report's fields
C18_Witness ==
    /\ lastPublish.kind = "title"
    /\ lastPublish.snap.isPaused = Bool(TRUE)
    /\ lastPublish.snap.elapsedSeconds = 42
    /\ lastPublish.snap.title = Str(SongChars)
    /\ lastPublish.snap.songDuration = 180
    /\ lastPublish.snap.image = "image"


----------------------------------------------------------------------------
(* Claims about getImage *)

\* url is the longest prefix of src that ends with ".jpg"
TruncatedAfterJpg(url, src) ==
    /\ Len(url) <= Len(src)
    /\ url = SubSeq(src, 1, Len(url))
    /\ endsWith(url, JpgExtension)
    /\ \A n \in (Len(url) + 1)..Len(src) : ~endsWith(SubSeq(src, 1, n), JpgExtension)

\* C17: getImage fetches at most twice, first the URL it was given; it fetches
\* a second time exactly when the first image is empty and the URL contains
\* ".jpg" without ending with it; the second URL is the first truncated right
\* after the embedded ".jpg"; what the second fetch decodes to is returned as
\* it is; and every call ends.
C17_ImageRetry ==
    /\ []( /\ Len(fetched) <= 2
           /\ Len(outputs) <= Len(fetched)
           /\ Len(fetched) >= 1 => fetched[1] = imgSrc
           /\ Len(outputs) >= 1 =>
                  ( Len(fetched) = 2 <=>
                        /\ outputs[1] = "empty"
                        /\ ~endsWith(imgSrc, JpgExtension)
                        /\ includes(imgSrc, JpgExtension) )
           /\ Len(fetched) = 2 => TruncatedAfterJpg(fetched[2], imgSrc)
           /\ imgPc = "returned" =>
                  /\ Len(outputs) = Len(fetched)
                  /\ imgResult = outputs[Len(outputs)] )
    /\ (imgPc = "start" ~> imgPc \in {"returned", "rejected"})

\* a hidden webp URL with two ".jpg" in it is fetched again, cut after the
\* last ".jpg", and the empty image of the retry is returned
C17_Witness ==
    /\ imgPc = "returned"
    /\ imgSrc = UrlBase \o JpgExtension \o JpgExtension \o <<"=", "w">>
    /\ fetched = << imgSrc, UrlBase \o JpgExtension \o JpgExtension >>
    /\ outputs = << "empty", "empty" >>
    /\ imgResult = "empty"

----------------------------------------------------------------------------
(* Claims about the window lifecycle *)

\* C20: setupSongInfo and loadPlugins are called for at most one window, the
\* first BrowserWindow created; a window created later, on "activate", is
\* never handed to them, and no plugin is activated more than once.
C20_SetupOnlyFirstWindow ==
    /\ Len(setupWindows) <= 1
    /\ \A n \in DOMAIN setupWindows : setupWindows[n] = 1
    /\ \A i \in DOMAIN enabledPlugins : Cardinality(ActivationsOf(i)) <= 1

\* the first window was set up and its plugins activated, it was closed, and
\* a second window exists that was not set up
C20_Witness ==
    /\ windowsCreated = 2
    /\ mainWindow = "window"
    /\ setupWindows = <<1>>
    /\ ~onceRegistered
    /\ pendingProbes = {}
    /\ Len(enabledPlugins) = 2
    /\ \A i \in DOMAIN enabledPlugins :
           enabledPlugins[i].backend = "loads" /\ Cardinality(ActivationsOf(i)) = 1

----------------------------------------------------------------------------
(* Specifications *)

InitCleanup == CleanInit /\ CspIdle /\ HdrIdle /\ PlugIdle /\ SongIdle /\ ImgIdle /\ LifeIdle

SpecCleanup == InitCleanup /\ [][CleanNext]_vars

InitCsp == CleanIdle /\ CspInit /\ HdrIdle /\ PlugIdle /\ SongIdle /\ ImgIdle /\ LifeIdle

SpecCsp == InitCsp /\ [][CspNext]_vars

InitHeaders == CleanIdle /\ CspIdle /\ HdrIdle /\ PlugIdle /\ SongIdle /\ ImgIdle /\ LifeIdle

SpecHeaders == InitHeaders /\ [][HdrNext]_vars

InitPlugins == CleanIdle /\ CspIdle /\ HdrIdle /\ PlugInit /\ SongIdle /\ ImgIdle /\ LifeIdle

SpecPlugins == InitPlugins /\ [][PlugNext]_vars

InitSongInfo == CleanIdle /\ CspIdle /\ HdrIdle /\ PlugIdle /\ SongIdle /\ ImgIdle /\ LifeIdle

SpecSongInfo == InitSongInfo /\ [][SongNext]_vars

InitImage == CleanIdle /\ CspIdle /\ HdrIdle /\ PlugIdle /\ SongIdle /\ ImgInit /\ LifeIdle

\* a fetch that was started settles or fails
SpecImage == InitImage /\ [][ImgNext]_vars /\ WF_vars(ImgNext)

\* the window lifecycle with the configured plugins
LifecycleNext ==
    \/ AppReady
    \/ onClosed
    \/ Activate
    \/ \E i \in 1..MaxPlugins : FileExistsCompletes(i)

InitLifecycle == CleanIdle /\ CspIdle /\ HdrIdle /\ PlugConfigured /\ SongIdle /\ ImgIdle /\ LifeIdle

SpecLifecycle == InitLifecycle /\ [][LifecycleNext]_vars

====
